---- MODULE Spec2Model ----
(***************************************************************************)
(* The resumable upload engine of tubecast:                                *)
(* YouTubeService.upload_video / YouTubeService._resumable_upload          *)
(* (src/src/tubecast/services/youtube.py).                                 *)
(*                                                                         *)
(* One upload call is modelled: upload_video builds the resumable media    *)
(* (total_size bytes, sent chunksize bytes at a time) and                  *)
(* _resumable_upload drives insert_request.next_chunk() in a loop, with a  *)
(* retry counter and an exponential, jittered sleep between retries.       *)
(* The remote session is the environment: every result next_chunk() can    *)
(* hand back (a progress status, the final response, an HttpError, a       *)
(* transport exception) is chosen nondeterministically.                    *)
(*                                                                         *)
(* The commands upload and batch (src/src/tubecast/cli.py) are modelled     *)
(* in a specification of their own, CliSpec, in which an upload_video call  *)
(* is one step that returns or raises.                                     *)
(***************************************************************************)
EXTENDS Integers, Sequences, FiniteSets, TLC

\* ------------------------------------------------------------------ bounds
\* Largest small source length, in bytes, drawn in Init.
MaxLen == 3
\* Largest small chunk size, in bytes, drawn in Init.
MaxChunk == 2
\* At most this many partial-acceptance results in one upload.
MaxIncomplete == 3
\* random.random() draws one of the RandomSteps values u / RandomSteps,
\* 0 <= u < RandomSteps; a delay is held in units of 1 / RandomSteps second.
RandomSteps == 2

\* ------------------------------------------------------- program constants
MAX_RETRIES == 10
\* Variant: the whole 500..504 range is listed.
RETRIABLE_STATUS_CODES_range == 500..504
RETRIABLE_STATUS_CODES == {500, 502, 503, 504}
\* chunksize=1024 * 1024 of upload_video
CHUNKSIZE == 1024 * 1024

\* The HTTP statuses an HttpError of next_chunk() carries in the model:
\* malformed request, authentication failure, and the 5xx family.
HttpStatuses == {400, 401, 500, 501, 502, 503, 504}

None == [kind |-> "None", status |-> 0, offset |-> 0]
NoChunk == [startOffset |-> -1, endOffset |-> -1, isFinal |-> FALSE]

Min(a, b) == IF a <= b THEN a ELSE b

VARIABLES
    total_size,          \* media.size(): the source length in bytes
    chunksize,           \* media.chunksize()
    progress_callback,   \* TRUE iff a progress callback was passed
    pc,                  \* "next_chunk" | "handle_error" | "returned" | "raised"
    resumable_progress,  \* insert_request.resumable_progress: the confirmed offset
    retry,               \* the local retry of _resumable_upload
    error,               \* the local error of _resumable_upload (None or the error)
    response,            \* the local response: None until next_chunk() hands
                         \* back the final response, which is returned if it has "id"
    raised,              \* the exception that left _resumable_upload (None or it)
    ncalls,              \* history: number of next_chunk() calls
    sent,                \* history: the chunk of the latest next_chunk() call
    events,              \* history: the arguments of each progress_callback call
    sleeps,              \* history: the retry count at each time.sleep
    sleep_seconds,       \* the delay of the latest time.sleep, in 1/RandomSteps s
    incompletes,         \* history: number of partial-acceptance results
    clean,               \* history: every send so far was accepted in full
    \* the command line (src/src/tubecast/cli.py)
    command,             \* "upload" | "batch" ("none": no command is modelled)
    options,             \* which of --interactive, --ai, --title, --description,
                         \* --tags were given
    config,              \* load_config(): ai_enabled
    videos,              \* the number of files of the command; file k is named k
    video,               \* the file being processed (for i, video in enumerate)
    cli_pc,              \* "start" | "do_upload" | "loop" | "done" | "exited"
    metadata,            \* upload: the title, description and tags handed to
                         \* _do_upload
    results,             \* batch: the results list
    uploads,             \* history: the upload_video calls, with their metadata
    gen_failed,          \* history: the files whose generate_metadata call raised
    failed,              \* history: <<file, stage>> of every terminal failure
    exit_code            \* the exit status of the process (NoExit while it runs)

engine_vars ==
    <<total_size, chunksize, progress_callback, pc, resumable_progress, retry,
      error, response, raised, ncalls, sent, events, sleeps,
      sleep_seconds, incompletes, clean>>

cli_vars ==
    <<command, options, config, videos, video, cli_pc, metadata, results, uploads,
      gen_failed, failed, exit_code>>

vars == <<engine_vars, cli_vars>>

\* No exit status yet, and no metadata yet.
NoExit == -1
NoMetadata == [title |-> "none", description |-> "none", tags |-> "none"]

\* The command line while a single upload_video call is studied on its own.
CliIdle ==
    /\ command = "none"
    /\ options = [interactive |-> FALSE, ai |-> FALSE, title |-> FALSE,
                  description |-> FALSE, tags |-> FALSE]
    /\ config = [ai_enabled |-> FALSE]
    /\ videos = 0
    /\ video = 0
    /\ cli_pc = "idle"
    /\ metadata = NoMetadata
    /\ results = <<>>
    /\ uploads = <<>>
    /\ gen_failed = {}
    /\ failed = {}
    /\ exit_code = NoExit

\* ------------------------------------------------------------ chunk planner
\* upload_video hands the file to the API client's MediaFileUpload and
\* next_chunk() cuts the chunks; the repository holds no planner code of its
\* own, so the planner is written from the design description (spec.md 3, 4.1).
\* Variant: the end of a chunk is not clamped to the source length.
NextChunk_unclamped(N, C, O) ==
    [startOffset |-> O, endOffset |-> O + C, isFinal |-> (O + C >= N)]

\* The descriptor of the chunk sent by a next_chunk() call made at offset O:
\* chunksize bytes, or what is left of the source (nothing, at or past its end).
NextChunk(N, C, O) ==
    LET e == IF O >= N THEN O ELSE Min(O + C, N)
    IN  [startOffset |-> O, endOffset |-> e, isFinal |-> (e >= N)]

\* Variant: a planner that cannot resume, and plans from byte 0 whatever the
\* offset it is given.
RECURSIVE PlanSteps(_, _, _)
PlanSteps(N, C, O) ==
    LET d == NextChunk(N, C, O)
    IN  IF d.isFinal THEN <<d>> ELSE <<d>> \o PlanSteps(N, C, d.endOffset)
PlanFromZero(N, C, O) == PlanSteps(N, C, 0)

\* The descriptors of a full run planned from offset O (0 <= O <= N).
RECURSIVE Plan(_, _, _)
Plan(N, C, O) ==
    LET d == NextChunk(N, C, O)
    IN  IF d.isFinal THEN <<d>> ELSE <<d>> \o Plan(N, C, d.endOffset)

\* ---------------------------------------------------------------- classifier
\* Variant: every HttpError is taken for a retriable one (the re-raise is lost).
IsRetriableStatus_all(s) == s \in RETRIABLE_STATUS_CODES \/ s >= 400

\* except HttpError as e: if e.resp.status in RETRIABLE_STATUS_CODES
IsRetriableStatus(s) == s \in RETRIABLE_STATUS_CODES

\* Variant: one more retry is allowed (retry > MAX_RETRIES + 1).
RetriesExceeded_late(r) == r > MAX_RETRIES + 1

\* Variant: the comparison is off by one (retry >= MAX_RETRIES).
RetriesExceeded_offByOne(r) == r >= MAX_RETRIES

\* if retry > MAX_RETRIES
RetriesExceeded(r) == r > MAX_RETRIES

\* ------------------------------------------------------------- environment
\* (source length, chunk size) pairs of the uploads modelled
Configs ==
    ((0..MaxLen) \X (1..MaxChunk))
        \cup {<<3500000, 1000000>>, <<3500000, CHUNKSIZE>>}

\* The offsets a partial-acceptance result may report for an upload of N bytes
\* in chunks of C: any offset (one past the end included) for a small source,
\* the chunk boundaries for a large one.
Offsets(N, C) ==
    IF N <= MaxLen
    THEN 0..(N + 1)
    ELSE {k * C : k \in 0..(N \div C)} \cup {N}

\* ---------------------------------------------------------------------- Init
Init ==
    /\ \E cfg \in Configs : total_size = cfg[1] /\ chunksize = cfg[2]
    /\ progress_callback \in BOOLEAN
    /\ pc = "next_chunk"
    /\ resumable_progress = 0
    /\ retry = 0
    /\ error = None
    /\ response = None
    /\ raised = None
    /\ ncalls = 0
    /\ sent = NoChunk
    /\ events = <<>>
    /\ sleeps = <<>>
    /\ sleep_seconds = 0
    /\ incompletes = 0
    /\ clean = TRUE
    /\ CliIdle

\* The chunk a next_chunk() call made now sends.
Sent == NextChunk(total_size, chunksize, resumable_progress)

\* The exceptions of the model, as records.
HttpError(s) == [kind |-> "HttpError", status |-> s, offset |-> resumable_progress]
IOError == [kind |-> "IOError", status |-> 0, offset |-> resumable_progress]
OtherError == [kind |-> "OtherError", status |-> 0, offset |-> resumable_progress]
UploadFailed == [kind |-> "UploadFailed", status |-> 200, offset |-> resumable_progress]
RetriesExhausted(e) ==
    [kind |-> "RetriesExhausted", status |-> e.status, offset |-> resumable_progress]

\* Variant: every call sends from byte 0.
Call_fromStart ==
    /\ ncalls' = ncalls + 1
    /\ sent' = NextChunk(total_size, chunksize, 0)

\* One more next_chunk() call, for the chunk at the current offset.
Call ==
    /\ ncalls' = ncalls + 1
    /\ sent' = Sent

\* progress_callback(int(status.resumable_progress), int(status.total_size)),
\* made only when a callback was passed.
Callback(p) ==
    events' = IF progress_callback
              THEN Append(events, <<p, total_size>>)
              ELSE events

\* next_chunk() returned (status, None): the server holds p bytes.
\* The callback is invoked; response is None and error is None, so the loop
\* goes round.
SendIncomplete ==
    /\ pc = "next_chunk"
    /\ incompletes < MaxIncomplete
    /\ \E p \in Offsets(total_size, chunksize) :
        /\ resumable_progress' = p
        /\ Callback(p)
        /\ clean' = (clean /\ ~Sent.isFinal /\ p = Sent.endOffset)
    /\ Call
    /\ incompletes' = incompletes + 1
    /\ UNCHANGED <<total_size, chunksize, progress_callback, pc, retry, error,
                   response, raised, sleeps, sleep_seconds>>
    /\ UNCHANGED cli_vars

\* Variant: a response without "id" is taken for a retriable error.
SendComplete_retried ==
    /\ pc = "next_chunk"
    /\ \E hasId \in BOOLEAN :
        IF hasId
        THEN /\ response' = [kind |-> "Video", status |-> 200,
                             offset |-> resumable_progress]
             /\ pc' = "returned"
             /\ error' = error
        ELSE /\ error' = UploadFailed
             /\ pc' = "handle_error"
             /\ response' = [kind |-> "NoId", status |-> 200,
                             offset |-> resumable_progress]
    /\ Call
    /\ clean' = (clean /\ Sent.isFinal)
    /\ UNCHANGED <<total_size, chunksize, progress_callback, resumable_progress,
                   retry, raised, events, sleeps, sleep_seconds, incompletes>>
    /\ UNCHANGED cli_vars

\* Variant: the test for "id" is inverted, so a response with "id" raises and
\* one without is returned.
SendComplete_inverted ==
    /\ pc = "next_chunk"
    /\ \E hasId \in BOOLEAN :
        IF hasId
        THEN /\ raised' = UploadFailed
             /\ pc' = "raised"
             /\ response' = [kind |-> "Video", status |-> 200,
                             offset |-> resumable_progress]
        ELSE /\ response' = [kind |-> "NoId", status |-> 200,
                             offset |-> resumable_progress]
             /\ pc' = "returned"
             /\ raised' = raised
    /\ Call
    /\ clean' = (clean /\ Sent.isFinal)
    /\ UNCHANGED <<total_size, chunksize, progress_callback, resumable_progress,
                   retry, error, events, sleeps, sleep_seconds,
                   incompletes>>
    /\ UNCHANGED cli_vars

\* next_chunk() returned (None, response): the upload is complete. status is
\* None, so the callback is not invoked. A response with "id" is returned,
\* one without raises Exception("Upload failed: ...").
SendComplete ==
    /\ pc = "next_chunk"
    /\ \E hasId \in BOOLEAN :
        IF hasId
        THEN /\ response' = [kind |-> "Video", status |-> 200,
                             offset |-> resumable_progress]
             /\ pc' = "returned"
             /\ raised' = raised
        ELSE /\ raised' = UploadFailed
             /\ pc' = "raised"
             /\ response' = [kind |-> "NoId", status |-> 200,
                             offset |-> resumable_progress]
    /\ Call
    /\ clean' = (clean /\ Sent.isFinal)
    /\ UNCHANGED <<total_size, chunksize, progress_callback, resumable_progress,
                   retry, error, events, sleeps, sleep_seconds,
                   incompletes>>
    /\ UNCHANGED cli_vars

\* next_chunk() raised HttpError with status s: a retriable status sets error,
\* any other status is re-raised.
SendHttpError ==
    /\ pc = "next_chunk"
    /\ \E s \in HttpStatuses :
        IF IsRetriableStatus(s)
        THEN /\ error' = HttpError(s)
             /\ pc' = "handle_error"
             /\ raised' = raised
        ELSE /\ raised' = HttpError(s)
             /\ pc' = "raised"
             /\ error' = error
    /\ Call
    /\ clean' = FALSE
    /\ UNCHANGED <<total_size, chunksize, progress_callback, resumable_progress,
                   retry, response, events, sleeps, sleep_seconds,
                   incompletes>>
    /\ UNCHANGED cli_vars

\* next_chunk() raised one of RETRIABLE_EXCEPTIONS (httplib2.HttpLib2Error,
\* IOError): error is set.
SendRetriableException ==
    /\ pc = "next_chunk"
    /\ error' = IOError
    /\ pc' = "handle_error"
    /\ Call
    /\ clean' = FALSE
    /\ UNCHANGED <<total_size, chunksize, progress_callback, resumable_progress,
                   retry, response, raised, events, sleeps, sleep_seconds,
                   incompletes>>
    /\ UNCHANGED cli_vars

\* next_chunk() raised an exception no except clause names: it propagates.
SendOtherException ==
    /\ pc = "next_chunk"
    /\ raised' = OtherError
    /\ pc' = "raised"
    /\ Call
    /\ clean' = FALSE
    /\ UNCHANGED <<total_size, chunksize, progress_callback, resumable_progress,
                   retry, error, response, events, sleeps, sleep_seconds,
                   incompletes>>
    /\ UNCHANGED cli_vars

\* The values random.random() returns, in [0.0, 1.0), as numerators over
\* RandomSteps.
RandomDraws == 0..(RandomSteps - 1)

\* Variant: the exponent is one too high (2 ** (retry + 1)).
SleepSeconds_next(u, k) == u * 2 ^ (k + 1)

\* sleep_seconds = random.random() * (2 ** retry), with the draw u / RandomSteps
\* and the result in units of 1 / RandomSteps second.
SleepSeconds(u, k) == u * 2 ^ k

\* if error is not None: retry += 1; past MAX_RETRIES raise, else sleep
\* random.random() * 2 ** retry seconds and clear error.
HandleError ==
    /\ pc = "handle_error"
    /\ retry' = retry + 1
    /\ IF RetriesExceeded(retry')
       THEN /\ raised' = RetriesExhausted(error)
            /\ pc' = "raised"
            /\ UNCHANGED <<error, sleeps, sleep_seconds>>
       ELSE /\ \E u \in RandomDraws : sleep_seconds' = SleepSeconds(u, retry')
            /\ sleeps' = Append(sleeps, retry')
            /\ error' = None
            /\ pc' = "next_chunk"
            /\ raised' = raised
    /\ UNCHANGED <<total_size, chunksize, progress_callback, resumable_progress,
                   response, ncalls, sent, events, incompletes, clean>>
    /\ UNCHANGED cli_vars

Next ==
    \/ SendIncomplete
    \/ SendComplete
    \/ SendHttpError
    \/ SendRetriableException
    \/ SendOtherException
    \/ HandleError

Spec == Init /\ [][Next]_vars

\* ------------------------------------------------------------ endless runs
\* Spec records at most MaxIncomplete partial results, so each of its runs is
\* finite. The code has no such limit: the while loop goes round for as long
\* as next_chunk() returns (status, None). The two actions below are the
\* partial results past the recorded ones, in two steps (the call, then its
\* result); the histories are left as they are.
UnrecordedCall ==
    /\ pc = "next_chunk"
    /\ incompletes = MaxIncomplete
    /\ pc' = "in_call"
    /\ UNCHANGED <<total_size, chunksize, progress_callback, resumable_progress,
                   retry, error, response, raised, ncalls, sent, events, sleeps,
                   sleep_seconds, incompletes, clean>>
    /\ UNCHANGED cli_vars

UnrecordedIncomplete ==
    /\ pc = "in_call"
    /\ \E p \in Offsets(total_size, chunksize) : resumable_progress' = p
    /\ pc' = "next_chunk"
    /\ clean' = FALSE
    /\ UNCHANGED <<total_size, chunksize, progress_callback, retry, error,
                   response, raised, ncalls, sent, events, sleeps,
                   sleep_seconds, incompletes>>
    /\ UNCHANGED cli_vars

LiveNext ==
    \/ Next
    \/ UnrecordedCall
    \/ UnrecordedIncomplete

\* One thread runs the loop, every next_chunk() call comes back and every
\* sleep ends: the upload always takes its next step.
LiveSpec == Init /\ [][LiveNext]_vars /\ WF_vars(LiveNext)

\* ============================================================ command line
\* The commands upload and batch (src/src/tubecast/cli.py). The engine is not
\* run step by step here: an upload_video call ends as the engine ends,
\* returning the response ("returned") or raising ("raised").
\* At most this many files in a batch folder.
MaxFiles == 3

\* The ways an upload_video call ends: the terminal pc values of the engine.
UploadOutcomes == {"returned", "raised"}

\* The engine while a command is studied on its own.
EngineIdle ==
    /\ total_size = 0
    /\ chunksize = CHUNKSIZE
    /\ progress_callback = FALSE
    /\ pc = "idle"
    /\ resumable_progress = 0
    /\ retry = 0
    /\ error = None
    /\ response = None
    /\ raised = None
    /\ ncalls = 0
    /\ sent = NoChunk
    /\ events = <<>>
    /\ sleeps = <<>>
    /\ sleep_seconds = 0
    /\ incompletes = 0
    /\ clean = TRUE

\* The state once the command has passed its opening checks (is_configured,
\* the file or folder exists, the folder holds a video).
CliInit ==
    /\ EngineIdle
    /\ command \in {"upload", "batch"}
    /\ options \in [interactive : BOOLEAN, ai : BOOLEAN, title : BOOLEAN,
                    description : BOOLEAN, tags : BOOLEAN]
    /\ command = "batch" =>
        (~options.interactive /\ ~options.title /\ ~options.description
            /\ ~options.tags)
    /\ config \in [ai_enabled : BOOLEAN]
    /\ videos \in (IF command = "upload" THEN {1} ELSE 1..MaxFiles)
    /\ video = 1
    /\ cli_pc = IF command = "upload" THEN "start" ELSE "loop"
    /\ metadata = NoMetadata
    /\ results = <<>>
    /\ uploads = <<>>
    /\ gen_failed = {}
    /\ failed = {}
    /\ exit_code = NoExit

\* The metadata, by where each field comes from.
Generated == [title |-> "generated", description |-> "generated",
              tags |-> "generated"]
\* title or file.stem, description or "", tags.split(",") if tags else []
Fallback == [title |-> IF options.title THEN "given" ELSE "stem",
             description |-> IF options.description THEN "given" ELSE "empty",
             tags |-> IF options.tags THEN "given" ELSE "empty"]
\* title or metadata.get("title", ...), and so on
GeneratedUnlessGiven ==
    [title |-> IF options.title THEN "given" ELSE "generated",
     description |-> IF options.description THEN "given" ELSE "generated",
     tags |-> IF options.tags THEN "given" ELSE "generated"]
\* The answers to the prompts Title (default file.stem), Description (default
\* "") and Tags (default ""): the default, or what the user types.
Prompted == [title : {"stem", "given"}, description : {"empty", "given"},
             tags : {"empty", "given"}]
\* batch without the generator: the JSON file beside the video, or the stem.
FromJson == [title |-> "json", description |-> "json", tags |-> "json"]
FromStem == [title |-> "stem", description |-> "empty", tags |-> "empty"]

\* upload dispatches on its options.
IsInteractive == options.interactive \/ (~options.title /\ ~options.ai)

\* _upload_interactive: the generator is used when ai_enabled is set, Gemini
\* answers and the user agrees; its failure is caught and the prompts follow.
UploadInteractive ==
    /\ command = "upload"
    /\ cli_pc = "start"
    /\ IsInteractive
    /\ \E use_ai \in (IF config.ai_enabled THEN BOOLEAN ELSE {FALSE}) :
        IF use_ai
        THEN \/ /\ \E accept \in BOOLEAN :
                    metadata' = IF accept
                                THEN Generated
                                ELSE [title |-> "given", description |-> "given",
                                      tags |-> "given"]
                /\ gen_failed' = gen_failed
             \/ /\ gen_failed' = gen_failed \cup {video}
                /\ metadata' \in Prompted
        ELSE /\ metadata' \in Prompted
             /\ gen_failed' = gen_failed
    /\ cli_pc' = "do_upload"
    /\ UNCHANGED <<command, options, config, videos, video, results, uploads,
                   failed, exit_code>>
    /\ UNCHANGED engine_vars

\* _upload_with_ai: generate_metadata inside try, the fallback in except.
UploadWithAi ==
    /\ command = "upload"
    /\ cli_pc = "start"
    /\ ~IsInteractive
    /\ options.ai
    /\ \/ /\ metadata' = GeneratedUnlessGiven
          /\ gen_failed' = gen_failed
       \/ /\ gen_failed' = gen_failed \cup {video}
          /\ metadata' = Fallback
    /\ cli_pc' = "do_upload"
    /\ UNCHANGED <<command, options, config, videos, video, results, uploads,
                   failed, exit_code>>
    /\ UNCHANGED engine_vars

\* _upload_direct
UploadDirect ==
    /\ command = "upload"
    /\ cli_pc = "start"
    /\ ~IsInteractive
    /\ ~options.ai
    /\ metadata' = Fallback
    /\ cli_pc' = "do_upload"
    /\ UNCHANGED <<command, options, config, videos, video, results, uploads,
                   gen_failed, failed, exit_code>>
    /\ UNCHANGED engine_vars

\* _do_upload: authenticate() is outside the try, so its exception leaves the
\* process (status 1); an exception of upload_video is caught and turned into
\* typer.Exit(1); otherwise the command returns (status 0).
DoUpload ==
    /\ cli_pc = "do_upload"
    /\ \/ /\ failed' = failed \cup {<<video, "authenticate">>}
          /\ exit_code' = 1
          /\ cli_pc' = "exited"
          /\ uploads' = uploads
       \/ \E outcome \in UploadOutcomes :
            /\ uploads' = Append(uploads, [name |-> video, metadata |-> metadata])
            /\ IF outcome = "returned"
               THEN /\ exit_code' = 0
                    /\ cli_pc' = "done"
                    /\ failed' = failed
               ELSE /\ failed' = failed \cup {<<video, "upload_video">>}
                    /\ exit_code' = 1
                    /\ cli_pc' = "exited"
    /\ UNCHANGED <<command, options, config, videos, video, metadata, results,
                   gen_failed>>
    /\ UNCHANGED engine_vars

\* Variant: the exception is not caught, and ends the command.
RecordFailure_abort(stage) ==
    /\ failed' = failed \cup {<<video, stage>>}
    /\ cli_pc' = "exited"
    /\ exit_code' = 1
    /\ UNCHANGED <<results, video>>

\* except Exception as e: results.append((video.name, "", str(e))), and the
\* loop goes on to the next file.
RecordFailure(stage) ==
    /\ results' = Append(results, [name |-> video, video_id |-> 0,
                                   url |-> "error"])
    /\ failed' = failed \cup {<<video, stage>>}
    /\ video' = video + 1
    /\ UNCHANGED <<cli_pc, exit_code>>

\* batch uses the generator when --ai is given and ai_enabled is set.
BatchUsesAi == options.ai /\ config.ai_enabled

\* One turn of the loop of batch, the whole try statement: authenticate, the
\* metadata, upload_video, and the result appended by the try or by the except.
BatchIteration ==
    /\ command = "batch"
    /\ cli_pc = "loop"
    /\ video <= videos
    /\ \/ /\ RecordFailure("authenticate")
          /\ UNCHANGED <<uploads, gen_failed>>
       \/ /\ BatchUsesAi
          /\ gen_failed' = gen_failed \cup {video}
          /\ RecordFailure("generate_metadata")
          /\ uploads' = uploads
       \/ /\ ~BatchUsesAi
          /\ RecordFailure("json")
          /\ UNCHANGED <<uploads, gen_failed>>
       \/ /\ \E md \in (IF BatchUsesAi THEN {Generated} ELSE {FromJson, FromStem}) :
                uploads' = Append(uploads, [name |-> video, metadata |-> md])
          /\ gen_failed' = gen_failed
          /\ \/ /\ results' = Append(results, [name |-> video, video_id |-> video,
                                               url |-> "url"])
                /\ video' = video + 1
                /\ UNCHANGED <<failed, cli_pc, exit_code>>
             \/ RecordFailure("upload_video")
    /\ UNCHANGED <<command, options, config, videos, metadata>>
    /\ UNCHANGED engine_vars

\* After the loop batch prints the summary and returns: status 0.
BatchSummary ==
    /\ command = "batch"
    /\ cli_pc = "loop"
    /\ video > videos
    /\ cli_pc' = "done"
    /\ exit_code' = 0
    /\ UNCHANGED <<command, options, config, videos, video, metadata, results,
                   uploads, gen_failed, failed>>
    /\ UNCHANGED engine_vars

CliNext ==
    \/ UploadInteractive
    \/ UploadWithAi
    \/ UploadDirect
    \/ DoUpload
    \/ BatchIteration
    \/ BatchSummary

CliSpec == CliInit /\ [][CliNext]_vars

\* ==================================================================== claims
\* Every send so far returned a retriable error: there are as many sends as
\* retriable failures (retry counts them once handled).
AllRetriable ==
    /\ incompletes = 0
    /\ ncalls = retry + (IF pc = "handle_error" THEN 1 ELSE 0)

\* The HTTP statuses of the model outside 500, 502, 503, 504.
FatalStatuses == HttpStatuses \ {500, 502, 503, 504}

\* C1 (as stated): when every send returns a retriable error the upload ends
\* after exactly 10 backoff sleeps, and the 10th backoff is followed by no
\* further send: the sends are the 10 that preceded the 10 sleeps.
C1_NoSendAfterTenthBackoff ==
    (AllRetriable /\ pc = "raised") =>
        /\ raised.kind = "RetriesExhausted"
        /\ Len(sleeps) = 10
        /\ ncalls = 10

\* C1 (amended): when every send returns a retriable error the upload makes
\* at most 11 sends and 10 backoff sleeps (with retry counts 1..10, one sleep
\* after each of the first 10 failures), and it ends, after the 11th send
\* fails, in RetriesExhausted with exactly 10 sleeps and 11 sends.
C1_RetryBound ==
    AllRetriable =>
        /\ ncalls <= 11
        /\ Len(sleeps) <= 10
        /\ \A i \in 1..Len(sleeps) : sleeps[i] = i
        /\ pc = "next_chunk" => Len(sleeps) = ncalls
        /\ pc = "handle_error" => Len(sleeps) = ncalls - 1
        /\ pc = "raised" =>
            /\ raised.kind = "RetriesExhausted"
            /\ Len(sleeps) = 10
            /\ ncalls = 11

C1_Witness ==
    /\ AllRetriable
    /\ pc = "raised"
    /\ raised.kind = "RetriesExhausted"
    /\ Len(sleeps) = 10
    /\ ncalls = 11

\* C2: the retry counter counts only the failures at the current offset:
\* whenever a send advances the confirmed offset, the counter is 0 afterwards.
C2_ResetOnProgress ==
    [][resumable_progress' > resumable_progress => retry' = 0]_vars

\* C3: a send that ends in a fatal error (an HttpError outside the retriable
\* statuses, or an exception no handler names) fails the upload in that very
\* step, surfacing that error, with no sleep and no change of the confirmed
\* offset; a fatal status never reaches the retry path; and nothing (no send,
\* no sleep) follows the failure.
C3_FatalShortCircuit ==
    [][ /\ pc # "raised"
        /\ (pc' = "raised" /\ raised'.kind \in {"HttpError", "OtherError"}) =>
            /\ pc = "next_chunk"
            /\ ncalls' = ncalls + 1
            /\ sleeps' = sleeps
            /\ retry' = retry
            /\ resumable_progress' = resumable_progress
            /\ raised'.offset = resumable_progress
        /\ pc' = "handle_error" => error'.status \notin FatalStatuses
      ]_vars

\* Scenario C: the 3rd send fails fatally after two chunks were accepted.
C3_Witness ==
    /\ pc = "raised"
    /\ raised.kind = "HttpError"
    /\ raised.status = 400
    /\ ncalls = 3
    /\ incompletes = 2
    /\ resumable_progress = 2 * chunksize
    /\ raised.offset = 2 * chunksize
    /\ sleeps = <<>>

\* C4: the confirmed offset never decreases.
C4_MonotonicOffset ==
    [][resumable_progress' >= resumable_progress]_vars

\* C5: an error of a send takes the retry path exactly when it is an
\* HttpError with status 500, 502, 503 or 504 or a transport exception
\* (httplib2.HttpLib2Error, IOError); an HttpError with any other status is
\* raised to the caller, with the retry counter and the sleeps untouched, and
\* no step follows it.
C5_Classification ==
    [][ /\ (pc = "next_chunk" /\ pc' = "handle_error") =>
            \/ error'.kind = "IOError"
            \/ error'.kind = "HttpError" /\ error'.status \in {500, 502, 503, 504}
        /\ (pc' = "raised" /\ raised'.kind = "HttpError") =>
            /\ raised'.status \notin {500, 502, 503, 504}
            /\ retry' = retry
            /\ sleeps' = sleeps
        /\ raised.kind = "HttpError" => pc' = pc /\ ncalls' = ncalls
      ]_vars

\* Both classes were met in one upload: a 503 was retried, then a 401 ended it.
C5_Witness ==
    /\ pc = "raised"
    /\ raised.kind = "HttpError"
    /\ raised.status = 401
    /\ retry = 1
    /\ sleeps = <<1>>
    /\ ncalls = 2

\* C6: an upload that returns, with a progress callback passed, has called
\* the callback at least once with bytesTransferred = totalBytes. (Stated for
\* the uploads whose every send was accepted in full.)
C6_FinalProgressEvent ==
    (pc = "returned" /\ progress_callback /\ clean) =>
        \E i \in 1..Len(events) : events[i] = <<total_size, total_size>>

\* C7: the bytesTransferred values passed to the progress callback never
\* decrease.
C7_ProgressMonotone ==
    \A i \in 1..(Len(events) - 1) : events[i][1] <= events[i + 1][1]

\* The descriptors of plan p are contiguous from byte 0 to byte N, none is
\* empty unless the source is, and the last one alone is final.
IsPartition(p, N) ==
    /\ Len(p) >= 1
    /\ p[1].startOffset = 0
    /\ p[Len(p)].endOffset = N
    /\ \A i \in 1..Len(p) :
        /\ p[i].startOffset <= p[i].endOffset
        /\ p[i].startOffset = p[i].endOffset => N = 0
        /\ p[i].isFinal <=> i = Len(p)
    /\ \A i \in 1..(Len(p) - 1) : p[i].endOffset = p[i + 1].startOffset

\* Every byte of a small source lies in exactly one descriptor of plan p,
\* and no descriptor reaches outside the source.
CoversOnce(p, N) ==
    N <= MaxLen =>
        /\ \A b \in 0..(N - 1) :
            Cardinality({i \in 1..Len(p) :
                p[i].startOffset <= b /\ b < p[i].endOffset}) = 1
        /\ \A i \in 1..Len(p) : 0 <= p[i].startOffset /\ p[i].endOffset <= N

\* C8: the descriptors planned from offset 0 are contiguous and pairwise
\* non-overlapping, their union is exactly [0, N), and the last descriptor,
\* and only the last, is final.
C8_Partition ==
    LET p == Plan(total_size, chunksize, 0)
    IN  IsPartition(p, total_size) /\ CoversOnce(p, total_size)

\* An uninterrupted upload of three or more chunks has sent the whole plan.
C8_Witness ==
    /\ pc = "returned"
    /\ clean
    /\ ncalls >= 3
    /\ ncalls = Len(Plan(total_size, chunksize, 0))
    /\ sent = Plan(total_size, chunksize, 0)[ncalls]

\* The offsets at which resuming is checked: every offset of a small source;
\* the chunk boundaries, the byte after each, and the end of a large one.
ResumeOffsets(N, C) ==
    IF N <= MaxLen
    THEN 0..N
    ELSE {o \in {k * C + d : k \in 0..(N \div C), d \in {0, 1}} : o <= N} \cup {N}

\* Plan p without the descriptors that end at or before offset O.
Discard(p, O) == SelectSeq(p, LAMBDA d : d.endOffset > O)

\* C9 (as stated): for every offset O with 0 <= O <= N, planning from O gives
\* the plan from 0 without the descriptors that end at or before O.
C9_ResumeAnyOffset ==
    \A O \in ResumeOffsets(total_size, chunksize) :
        Plan(total_size, chunksize, O) = Discard(Plan(total_size, chunksize, 0), O)

\* C9 (amended): for every offset O < N that is a multiple of the chunk size,
\* planning from O gives the plan from 0 without the descriptors that end at
\* or before O.
C9_ResumeAtBoundary ==
    \A O \in ResumeOffsets(total_size, chunksize) :
        (O < total_size /\ O % chunksize = 0) =>
            Plan(total_size, chunksize, O)
                = Discard(Plan(total_size, chunksize, 0), O)

\* After a retriable failure, a send resumed at a confirmed offset that is a
\* chunk boundary inside the source, and sent the chunk the plan from 0 has
\* there.
C9_Witness ==
    /\ retry >= 1
    /\ ncalls >= 3
    /\ resumable_progress > 0
    /\ resumable_progress < total_size
    /\ resumable_progress % chunksize = 0
    /\ sent.startOffset = resumable_progress
    /\ sent = Discard(Plan(total_size, chunksize, 0), resumable_progress)[1]

\* C10 (Scenario A): with 3,500,000 bytes in chunks of 1,000,000 and every
\* send accepted in full, the sends are, in order, [0,1e6), [1e6,2e6),
\* [2e6,3e6), [3e6,3.5e6); the upload returns on the 4th, and the last
\* progress event is then (3500000, 3500000).
C10_ScenarioA ==
    (clean /\ progress_callback /\ total_size = 3500000 /\ chunksize = 1000000) =>
        /\ ncalls <= 4
        /\ ncalls = 1 => sent = [startOffset |-> 0, endOffset |-> 1000000,
                                 isFinal |-> FALSE]
        /\ ncalls = 2 => sent = [startOffset |-> 1000000, endOffset |-> 2000000,
                                 isFinal |-> FALSE]
        /\ ncalls = 3 => sent = [startOffset |-> 2000000, endOffset |-> 3000000,
                                 isFinal |-> FALSE]
        /\ ncalls = 4 => sent = [startOffset |-> 3000000, endOffset |-> 3500000,
                                 isFinal |-> TRUE]
        /\ pc = "returned" =>
            /\ ncalls = 4
            /\ Len(events) >= 1
            /\ events[Len(events)] = <<3500000, 3500000>>

\* Scenario B: 3,500,000 bytes in chunks of 1,000,000 with the callback
\* passed; the 1st chunk is accepted, the send of the 2nd fails twice
\* (retriably, or the upload would have ended) and then succeeds.
\* The state right after that success: 4 calls were made, the last one sent
\* [1e6, 2e6), and the events are those of the first two chunks.
ScenarioB_SecondChunkDone ==
    /\ total_size = 3500000
    /\ chunksize = 1000000
    /\ progress_callback
    /\ pc = "next_chunk"
    /\ events = <<<<1000000, 3500000>>, <<2000000, 3500000>>>>
    /\ ncalls = 4
    /\ sent = [startOffset |-> 1000000, endOffset |-> 2000000, isFinal |-> FALSE]

\* The end of Scenario B: the upload returned on the final chunk after the
\* events of the first three chunks and two handled failures.
ScenarioB_Returned ==
    /\ total_size = 3500000
    /\ chunksize = 1000000
    /\ progress_callback
    /\ pc = "returned"
    /\ events = <<<<1000000, 3500000>>, <<2000000, 3500000>>,
                  <<3000000, 3500000>>>>
    /\ sent.isFinal
    /\ Len(sleeps) = 2

\* C11 (Scenario B): when the send of the 2nd chunk fails retriably twice and
\* then succeeds, and every other send succeeds, there are exactly 2 backoff
\* sleeps, the retry counter is 0 once the 2nd chunk has succeeded, and the
\* upload returns after 5 calls in total.
C11_ScenarioB ==
    /\ ScenarioB_SecondChunkDone => (Len(sleeps) = 2 /\ retry = 0)
    /\ ScenarioB_Returned => ncalls = 5

\* C12 (Scenario D): for an empty source the plan is exactly one zero-length
\* chunk [0, 0) with isFinal set; when the send succeeds, the upload makes
\* exactly one call, for that chunk, and returns the response.
C12_ScenarioD ==
    total_size = 0 =>
        /\ Plan(0, chunksize, 0) =
               <<[startOffset |-> 0, endOffset |-> 0, isFinal |-> TRUE]>>
        /\ (ncalls >= 1 /\ clean /\ raised = None) =>
               /\ ncalls = 1
               /\ sent = [startOffset |-> 0, endOffset |-> 0, isFinal |-> TRUE]
               /\ pc = "returned"
               /\ response.kind = "Video"

\* An empty source whose only send succeeded.
C12_Witness ==
    /\ total_size = 0
    /\ clean
    /\ ncalls = 1
    /\ pc = "returned"
    /\ sent.endOffset = 0

\* C13 (backoff bound): the delay of the sleep of retry k is at least 0 and
\* less than 2^k seconds, the base unit being one second (RandomSteps units),
\* and k runs over 1..MAX_RETRIES.
C13_BackoffBound ==
    Len(sleeps) >= 1 =>
        LET k == sleeps[Len(sleeps)]
        IN  /\ k \in 1..MAX_RETRIES
            /\ sleep_seconds >= 0
            /\ sleep_seconds < RandomSteps * 2 ^ k

\* The sleep of the last retry, with the largest draw.
C13_Witness ==
    /\ Len(sleeps) = MAX_RETRIES
    /\ retry = MAX_RETRIES
    /\ sleep_seconds = (RandomSteps - 1) * 2 ^ MAX_RETRIES

\* The stages at which the processing of a file fails.
Stages == {"authenticate", "generate_metadata", "json", "upload_video"}

\* C14 (batch failure isolation): a failure of one file, at whatever stage,
\* does not end the batch: the command goes on to the next file and ends
\* normally, every file processed so far has exactly one entry in results,
\* the entries are in file order, and an entry is the failure entry (empty
\* video id) exactly when its file failed.
C14_BatchIsolation ==
    command = "batch" =>
        /\ cli_pc \in {"loop", "done"}
        /\ Len(results) = video - 1
        /\ \A k \in 1..Len(results) :
            /\ results[k].name = k
            /\ results[k].video_id = 0 <=> \E st \in Stages : <<k, st>> \in failed
        /\ cli_pc = "done" => Len(results) = videos

\* A finished batch whose first file failed in upload_video and whose second
\* file was uploaded.
C14_Witness ==
    /\ command = "batch"
    /\ cli_pc = "done"
    /\ videos >= 2
    /\ <<1, "upload_video">> \in failed
    /\ results[1].video_id = 0
    /\ results[2].video_id = 2

\* The command is through with file name.
Processed(name) ==
    \/ command = "upload" /\ cli_pc \in {"done", "exited"}
    \/ command = "batch" /\ name < video

\* upload_video was called for file name with the fallback metadata: nothing
\* generated; the file's stem as title and an empty description and empty
\* tags, wherever the user gave none of their own.
UploadedWithFallback(name) ==
    \E k \in 1..Len(uploads) :
        /\ uploads[k].name = name
        /\ uploads[k].metadata.title \in {"stem", "given"}
        /\ uploads[k].metadata.description \in {"empty", "given"}
        /\ uploads[k].metadata.tags \in {"empty", "given"}

\* C15 (metadata fallback): whenever generate_metadata fails for a file, the
\* command still uploads that file (authentication permitting), with the
\* fallback metadata; on every path that calls the generator: upload --ai,
\* interactive upload, batch --ai.
C15_MetadataFallback ==
    \A name \in gen_failed :
        (Processed(name) /\ <<name, "authenticate">> \notin failed) =>
            UploadedWithFallback(name)

\* C16 (exit status): when the processing of a file ended in a terminal
\* failure, the command, upload or batch, ends with a non-zero exit status.
C16_ExitStatus ==
    (cli_pc \in {"done", "exited"} /\ failed # {}) =>
        (exit_code # NoExit /\ exit_code # 0)

\* C17 (no-progress handling): a partial result that reports the offset
\* already confirmed is handled as an error: the loop does not go straight
\* back to the next send with the retry counter unchanged and no sleep.
C17_NoProgressIsError ==
    [][(incompletes' = incompletes + 1
            /\ resumable_progress' = resumable_progress) =>
        ~(pc' = "next_chunk" /\ retry' = retry /\ sleeps' = sleeps)]_vars

\* C18 (termination): whatever the results of the sends, partial results
\* without forward progress included, the upload eventually returns or
\* raises.
C18_Termination == <>(pc \in {"returned", "raised"})

\* C19 (send ordering): the calls are made one at a time, each for the chunk
\* that starts at the offset confirmed when it is made, and only when no
\* failure is waiting to be handled; handling a retriable failure makes no
\* call and leaves the offset alone, and either raises or sleeps exactly once
\* before the next call; there is no sleep at any other point.
C19_SendOrdering ==
    [][/\ ncalls' \in {ncalls, ncalls + 1}
       /\ ncalls' = ncalls + 1 =>
            /\ pc = "next_chunk"
            /\ error = None
            /\ sent'.startOffset = resumable_progress
       /\ pc = "handle_error" =>
            /\ ncalls' = ncalls
            /\ resumable_progress' = resumable_progress
            /\ \/ pc' = "next_chunk" /\ Len(sleeps') = Len(sleeps) + 1
               \/ pc' = "raised" /\ sleeps' = sleeps
       /\ pc = "next_chunk" => sleeps' = sleeps]_vars

\* A send at a confirmed offset inside the source failed, was followed by one
\* sleep, and the send made after it, at the same offset, has failed too.
C19_Witness ==
    /\ pc = "handle_error"
    /\ incompletes = 1
    /\ ncalls = 3
    /\ sleeps = <<1>>
    /\ resumable_progress > 0
    /\ resumable_progress < total_size
    /\ sent.startOffset = resumable_progress
    /\ error.offset = resumable_progress

\* C20 (as stated): in every reachable state, the state after the retries
\* are exhausted included, the retry counter is at most MAX_RETRIES.
C20_AttemptBound == retry <= MAX_RETRIES

\* C20 (amended): the retry counter is at most MAX_RETRIES while the upload
\* runs, so at every send and at every sleep; it is MAX_RETRIES + 1, and
\* never more, exactly in the state reached by exhausting the retries.
C20_AttemptBoundRunning ==
    /\ retry <= MAX_RETRIES + 1
    /\ pc \in {"next_chunk", "handle_error", "returned"} => retry <= MAX_RETRIES
    /\ retry = MAX_RETRIES + 1 <=>
        (pc = "raised" /\ raised.kind = "RetriesExhausted")

\* The retries were exhausted in an upload that had made some progress.
C20_Witness ==
    /\ pc = "raised"
    /\ raised.kind = "RetriesExhausted"
    /\ retry = MAX_RETRIES + 1
    /\ resumable_progress > 0

\* C21 (offset bound): in every reachable state the confirmed offset is at
\* most the source length, and every progress event (current, total) has
\* current <= total, whatever offsets the partial results report.
C21_OffsetBound ==
    /\ resumable_progress <= total_size
    /\ \A k \in 1..Len(events) : events[k][1] <= events[k][2]

\* C22 (malformed terminal response): the step in which next_chunk() hands
\* back a final response without "id" raises at once, with the retry counter
\* and the sleeps untouched and no error left to handle; and whenever the
\* upload returns, what it returns is a response with "id", never an empty
\* result.
C22_MalformedResponse ==
    [][/\ (response = None /\ response'.kind = "NoId") =>
            /\ pc' = "raised"
            /\ raised'.kind = "UploadFailed"
            /\ retry' = retry
            /\ sleeps' = sleeps
            /\ error' = error
       /\ pc' = "returned" => response'.kind = "Video"
       /\ response' # None => pc' \in {"returned", "raised"}]_vars

\* A final response without "id" arrived after two handled failures and some
\* progress: the upload raised, with no third sleep.
C22_Witness ==
    /\ pc = "raised"
    /\ raised.kind = "UploadFailed"
    /\ response.kind = "NoId"
    /\ retry = 2
    /\ sleeps = <<1, 2>>
    /\ resumable_progress > 0

====
